---------------------------- MODULE Spec2Model ----------------------------
(* A state-machine model of the SGX derivatives downloader:                *)
(*   src/sgx_downloader/sgx_downloader.py  (the SCD-2 + MinIO pipeline)    *)
(*   src/app.py                            (scheduler and HTTP trigger)    *)
(* Every run of download_all_files is a process; the filesystem, the       *)
(* file_versions table and the object store are shared by all runs.        *)
EXTENDS Integers, Sequences, FiniteSets, TLC

\* ------------------------------------------------------------------ bounds
\* Length of the environment's script: the number of external events of a
\* behaviour (a call of download_all_files, a new revision of a file
\* upstream, midnight, a failure of the network, the disk, the database
\* or the object store, a kill of the process).
MaxEvents == 3

\* ------------------------------------------------------- values and names
NULL == "NULL"

\* The threads that can execute download_all_files: the APScheduler job
\* thread and a request thread of the HTTP server.
Threads == {"scheduled", "manual"}

\* A directory: a root, the sub-directory pieces below it and, for a
\* warehouse partition, the digits of its year=/month=/day= components.
Dir(root, sub, part) == [root |-> root, sub |-> sub, part |-> part]
DOWNLOAD_DIR == Dir("/data/raw", <<>>, <<>>)
REFERENCE_DIR == Dir("/data/reference", <<>>, <<>>)
WAREHOUSE_DIR == Dir("/data/warehouse", <<>>, <<>>)

\* str(date.today()) for the days of the model.
DayStr == <<"2024-03-08", "2024-03-09", "2024-03-10", "2024-03-11",
            "2024-03-12", "2024-03-13", "2024-03-14", "2024-03-15">>

\* A file name is its stem (a sequence of text pieces) and its suffix, the
\* two parts pathlib's Path(name).stem and Path(name).suffix split it into.
FileName(stem, ext) == [stem |-> stem, ext |-> ext]

\* A zip body is a sequence of chunks: member payloads followed by the
\* end-of-central-directory chunk; anything else does not open as a zip.
EOCD == 0
BadCrc == 9

\* The bodies upstream can answer a download with (HTTP 200): an archive
\* of two members, a revision of it with one member, an archive whose
\* third member is corrupt, and an empty body.
GoodBody == <<1, 2, EOCD>>
CorruptBody == <<1, 2, BadCrc, EOCD>>
Bodies == { GoodBody, <<1, EOCD>>, CorruptBody, <<>> }

\* ---------------------------------------------------------------- catalog
\* The month abbreviations strptime's %b accepts.
MonthNames == <<"Jan", "Feb", "Mar", "Apr", "May", "Jun",
                "Jul", "Aug", "Sep", "Oct", "Nov", "Dec">>

\* A calendar date (datetime.date); NoDate stands for Python's None.
Date(y, m, d) == [year |-> y, month |-> m, day |-> d]
NoDate == Date(0, 0, 0)

\* The feed's display date, "DD Mon YYYY", as its three fields.
Disp(dd, mon, yyyy) == [dd |-> dd, mon |-> mon, yyyy |-> yyyy]

\* A missing or empty file-name field (falsy in Python).
NoName == FileName(<<>>, "")

\* One artifact kind of an item: its link field ("" when missing or empty)
\* and its file-name field.
Kind(link, name) == [link |-> link, name |-> name]

\* The four (link_key, name_key) pairs of download_all_files, in order.
file_keys == <<"Data File", "Tick Data Structure File",
               "TC Data File", "TC Data Structure File">>

\* Items of the feed.  `has` is the set of keys the JSON object carries.
\* Item07 is the release of 07 Mar 2024: the primary data container and
\* its structure file (its TC fields are missing or empty).  Item06 is the
\* release of 06 Mar 2024: the secondary (TC) data file, published as a
\* zip, and its structure file (its primary fields are missing or empty).
Item07 ==
  [has |-> {"Date", "key"}, Date |-> Disp(7, "Mar", 2024), key |-> "k07",
   kinds |-> << Kind("l", FileName(<<"WEBPXTICK_DT-20240307">>, ".zip")),
                Kind("l", FileName(<<"TickData", "_structure">>, ".dat")),
                Kind("", FileName(<<"TC_20240307">>, ".txt")),
                Kind("l", NoName) >>]
Item06 ==
  [has |-> {"Date", "key"}, Date |-> Disp(6, "Mar", 2024), key |-> "k06",
   kinds |-> << Kind("", NoName),
                Kind("l", NoName),
                Kind("l", FileName(<<"TC_20240306">>, ".ZIP")),
                Kind("l", FileName(<<"TC", "_structure">>, ".dat")) >>]
\* An entry of the feed without a key, which _available_items discards.
ItemNoKey ==
  [has |-> {"Date"}, Date |-> Disp(8, "Mar", 2024), key |-> "",
   kinds |-> << Kind("", NoName), Kind("", NoName),
                Kind("", NoName), Kind("", NoName) >>]
\* Python's None where an item is expected.
NoItem ==
  [has |-> {}, Date |-> Disp(0, "", 0), key |-> "", kinds |-> <<>>]

\* The file names the feed's items carry.
FeedNames ==
  {k.name : k \in {Item07.kinds[i] : i \in 1..4} \cup {Item06.kinds[i] : i \in 1..4}}
    \ {NoName}

\* The "items" arrays the feed can answer with.
Feeds == { <<Item06, ItemNoKey, Item07>>, <<Item07>>, <<>> }

\* index of a month abbreviation, 0 when it is none
MonthIndex(mon) ==
  IF \E i \in 1..12 : MonthNames[i] = mon
  THEN CHOOSE i \in 1..12 : MonthNames[i] = mon
  ELSE 0

\* _parse_item_date: strptime(s, "%d %b %Y").date()
_parse_item_date(s) == Date(s.yyyy, MonthIndex(s.mon), s.dd)

\* the order of datetime.date values
DateLess(a, b) ==
  \/ a.year < b.year
  \/ a.year = b.year /\ a.month < b.month
  \/ a.year = b.year /\ a.month = b.month /\ a.day < b.day

\* list.sort(key=..., reverse=True): a stable insertion of x into a list
\* already sorted by descending date
RECURSIVE InsertDesc(_, _)
InsertDesc(x, sorted) ==
  IF sorted = <<>> THEN <<x>>
  ELSE IF DateLess(_parse_item_date(Head(sorted).Date), _parse_item_date(x.Date))
       THEN <<x>> \o sorted
       ELSE <<Head(sorted)>> \o InsertDesc(x, Tail(sorted))

RECURSIVE SortDesc(_)
SortDesc(items) ==
  IF items = <<>> THEN <<>>
  ELSE InsertDesc(items[Len(items)], SortDesc(SubSeq(items, 1, Len(items) - 1)))

\* _available_items on the feed's answer: drop entries without Date or key,
\* sort by parsed date, most recent first.
HasDateAndKey(i) == "Date" \in i.has /\ "key" \in i.has
_available_items(raw) == SortDesc(SelectSeq(raw, HasDateAndKey))

\* The target_date arguments a caller can pass, each with the fields its
\* notation carries: fmt "None" is no argument, "garbage" a text that
\* matches none of the three formats.
Target(fmt, d, m, mon, y) == [fmt |-> fmt, d |-> d, m |-> m, mon |-> mon, y |-> y]
TargetInputs ==
  { Target("None", 0, 0, "", 0),
    Target("%d/%m/%Y", 7, 3, "", 2024),
    Target("%Y-%m-%d", 6, 3, "", 2024),
    Target("%d %b %Y", 5, 0, "Mar", 2024),
    Target("garbage", 0, 0, "", 0) }

\* _parse_input_date: the first of the three formats that parses s.
_parse_input_date(s) ==
  IF s.fmt = "None" THEN NoDate
  ELSE IF s.fmt \in {"%d/%m/%Y", "%Y-%m-%d"} THEN Date(s.y, s.m, s.d)
  ELSE IF s.fmt = "%d %b %Y" /\ MonthIndex(s.mon) # 0
       THEN Date(s.y, MonthIndex(s.mon), s.d)
  ELSE NoDate

\* _select_item_for_date: by_date keeps, for each date, the last item of
\* the list carrying it.
_select_item_for_date(items, target) ==
  IF items = <<>> THEN NoItem
  ELSE IF target = NoDate THEN items[1]
  ELSE IF \E i \in 1..Len(items) : _parse_item_date(items[i].Date) = target
       THEN LET last == CHOOSE i \in 1..Len(items) :
                          /\ _parse_item_date(items[i].Date) = target
                          /\ \A j \in (i+1)..Len(items) :
                                _parse_item_date(items[j].Date) # target
            IN items[last]
  ELSE NoItem

\* ------------------------------------------------------------- filesystem
\* The filesystem is a set of files, at most one per (dir, name).
File(dir, name, body) == [dir |-> dir, name |-> name, body |-> body]
Path(dir, name) == [dir |-> dir, name |-> name]
NoPath == Path(Dir("", <<>>, <<>>), NoName)

Exists(files, p) == \E f \in files : f.dir = p.dir /\ f.name = p.name
ReadFile(files, p) == (CHOOSE f \in files : f.dir = p.dir /\ f.name = p.name).body
RemoveFile(files, p) == {f \in files : ~(f.dir = p.dir /\ f.name = p.name)}
WriteFile(files, p, body) == RemoveFile(files, p) \cup {File(p.dir, p.name, body)}
\* shutil.move(src, dst): dst is replaced when it exists
MoveFile(files, src, dst) ==
  WriteFile(RemoveFile(files, src), dst, ReadFile(files, src))
\* os.listdir
ListDir(files, dir) == {f.name : f \in {g \in files : g.dir = dir}}
\* shutil.rmtree(dir, ignore_errors=True)
RmTree(files, dir) == {f \in files : f.dir # dir}

\* ------------------------------------------------------------- SCD type 2
\* compute_checksum: sha256 over the chunks of the file, in order; distinct
\* bodies have distinct digests.
RECURSIVE Digest(_, _)
Digest(h, body) ==
  IF body = <<>> THEN h ELSE Digest(h * 16 + Head(body) + 1, Tail(body))
compute_checksum(body) == Digest(1, body)

\* A row of file_versions; its rowid is its position in the table.
Row(file_name, version_date, checksum, valid_from, valid_to) ==
  [file_name |-> file_name, version_date |-> version_date,
   checksum |-> checksum, valid_from |-> valid_from, valid_to |-> valid_to]

\* SELECT rowid, checksum ... WHERE file_name = ? AND valid_to IS NULL
\* ORDER BY rowid DESC LIMIT 1; rowid 0 stands for no row (None).
Latest(rowid, checksum) == [rowid |-> rowid, checksum |-> checksum]
CurrentRows(db, file_name) ==
  {i \in 1..Len(db) : db[i].file_name = file_name /\ db[i].valid_to = NULL}
SelectLatest(db, file_name) ==
  IF CurrentRows(db, file_name) = {} THEN Latest(0, 0)
  ELSE LET i == CHOOSE i \in CurrentRows(db, file_name) :
                  \A j \in CurrentRows(db, file_name) : j <= i
       IN Latest(i, db[i].checksum)

\* a comparison that never finds the content unchanged
IsUnchangedNever(latest, checksum) == FALSE

\* if latest and latest[1] == checksum
IsUnchanged(latest, checksum) == latest.rowid # 0 /\ latest.checksum = checksum

\* versioned_name = f"{stem}_{today}{suffix}"
versioned_name(file_name, today) ==
  FileName(file_name.stem \o <<"_", today>>, file_name.ext)

\* a store_if_changed that deletes the row it should close
CloseLatestDeleting(db, latest, today) ==
  IF latest.rowid # 0
  THEN SubSeq(db, 1, latest.rowid - 1) \o SubSeq(db, latest.rowid + 1, Len(db))
  ELSE db

\* a store_if_changed that forgets the UPDATE
CloseLatestSkipped(db, latest, today) == db

\* UPDATE file_versions SET valid_to = ? WHERE rowid = ?   (only if latest)
CloseLatest(db, latest, today) ==
  IF latest.rowid # 0
  THEN [db EXCEPT ![latest.rowid].valid_to = today]
  ELSE db

\* an INSERT that writes today into valid_to as well
InsertVersionClosed(db, file_name, checksum, today) ==
  Append(db, Row(file_name, today, checksum, today, today))

\* INSERT INTO file_versions VALUES (file_name, today, checksum, today, NULL)
InsertVersion(db, file_name, checksum, today) ==
  Append(db, Row(file_name, today, checksum, today, NULL))

\* ------------------------------------------------------------ routing
Lower(ext) == IF ext = ".ZIP" THEN ".zip" ELSE ext
\* filename.endswith("_structure.dat")
is_schema(filename) ==
  /\ filename.ext = ".dat"
  /\ filename.stem # <<>>
  /\ filename.stem[Len(filename.stem)] = "_structure"
final_dir(filename) == IF is_schema(filename) THEN REFERENCE_DIR ELSE DOWNLOAD_DIR
upload_prefix(filename) == IF is_schema(filename) THEN "derivative_reference" ELSE "raw"
\* "WEBPXTICK_DT" if filename.lower().endswith(".zip") else None ("" here)
table_for_zip(filename) == IF Lower(filename.ext) = ".zip" THEN "WEBPXTICK_DT" ELSE ""

\* ---------------------------------------------------------------- MinIO
\* An object of the bucket "datalake": its key and the bytes uploaded.
Key(prefix, sub, part, name) ==
  [prefix |-> prefix, sub |-> sub, part |-> part, name |-> name]
Object(key, body) == [key |-> key, body |-> body]
PutObject(objs, key, body) == {o \in objs : o.key # key} \cup {Object(key, body)}
\* key = f"{prefix}/{basename}"
raw_key(prefix, path) == Key(prefix, <<>>, <<>>, path.name)

\* ------------------------------------------------- extract and warehouse
\* ":02d"
Pad2(n) == <<n \div 10, n % 10>>
\* _partition_dir
_partition_dir(table_name, d) ==
  Dir(WAREHOUSE_DIR.root, <<table_name>>, <<d.year>> \o Pad2(d.month) \o Pad2(d.day))
\* a key that leaves the partition out
warehouse_key_flat(local_path, table, d) ==
  Key("derivative_data", <<table>>, <<>>, local_path.name)

\* the key of upload_warehouse_file
warehouse_key(local_path, table, d) ==
  Key("derivative_data", <<table>>, <<d.year>> \o Pad2(d.month) \o Pad2(d.day),
      local_path.name)
\* extract_dir = os.path.join("/tmp", Path(stored_path).stem)
extract_dir_of(stored_path) == Dir("/tmp", stored_path.name.stem, <<>>)

\* zipfile.ZipFile(path): the archive opens when its last chunk is the
\* end-of-central-directory record.
OpensAsZip(body) == body # <<>> /\ body[Len(body)] = EOCD
\* The members of an archive, in order: member i carries chunk i.
MemberTags == <<"a", "b", "c", "d">>
MemberName(i) == FileName(<<"WEBPXTICK_DT", MemberTags[i]>>, ".csv")
MemberCount(body) == Len(body) - 1
\* extractall stops with BadZipFile at the first member whose CRC is bad;
\* the members before it are already written.
GoodPrefix(body) ==
  IF \E i \in 1..MemberCount(body) : body[i] = BadCrc
  THEN (CHOOSE i \in 1..MemberCount(body) :
          body[i] = BadCrc /\ \A j \in 1..(i-1) : body[j] # BadCrc) - 1
  ELSE MemberCount(body)
RECURSIVE ExtractMembers(_, _, _, _)
ExtractMembers(files, dir, body, n) ==
  IF n = 0 THEN files
  ELSE WriteFile(ExtractMembers(files, dir, body, n - 1),
                 Path(dir, MemberName(n)), <<body[n]>>)

\* ------------------------------------------------------------------ state
VARIABLES
  fs,             \* the local filesystem: staging, raw, reference, /tmp, warehouse
  objects,        \* the objects of the MinIO bucket
  file_versions,  \* the committed rows of table file_versions
  txn,            \* the open write transaction on metadata.db and its owner
  clock,          \* index into DayStr of the day date.today() returns
  run,            \* per thread: the locals of its download_all_files call
  upstream,       \* per file name: the body links.sgx.com serves for it
  events,         \* number of external events so far
  crashed         \* the process was killed and no run has started since

vars == <<fs, objects, file_versions, txn, clock, run, upstream, events, crashed>>

NoTxn == [owner |-> "", db |-> <<>>]

\* The locals of a thread that is not inside download_all_files.  The
\* last six fields are history, not locals of the code: the table when the
\* call started, whether every body the call has fetched was the recorded
\* current version, the names it has fetched, the store as it was when the
\* commit in progress began, the local paths whose upload failed, and (kept
\* only by SelectSpec) the feed and the argument of the call.
NoInput == [given |-> FALSE, raw |-> <<>>, target_date |-> Target("None", 0, 0, "", 0)]
NoResult == Disp(0, "", 0)
NoPre == [fs |-> {}, db |-> <<>>]
Idle ==
  [pc |-> "idle", selected |-> NoItem, idx |-> 0, temp_file |-> NoPath,
   checksum |-> 0, today |-> "", latest |-> Latest(0, 0),
   stored_path |-> NoPath, todo |-> {}, new_files |-> <<>>,
   result |-> NoResult, err |-> "",
   db0 |-> <<>>, same |-> TRUE, fetched |-> {}, pre |-> NoPre, unpublished |-> {},
   input |-> NoInput]

Active(t) == run[t].pc \notin {"idle", "done", "aborted"}

Init ==
  /\ fs = {}
  /\ objects = {}
  /\ file_versions = <<>>
  /\ txn = NoTxn
  /\ clock = 1
  /\ run = [t \in Threads |-> Idle]
  /\ upstream \in {[n \in FeedNames |-> GoodBody], [n \in FeedNames |-> CorruptBody]}
  /\ events = 0
  /\ crashed = FALSE

\* the next index of file_keys, from k on, whose link and filename are set
RECURSIVE NextKind(_, _)
NextKind(selected, k) ==
  IF k > Len(selected.kinds) THEN k
  ELSE IF selected.kinds[k].link # "" /\ selected.kinds[k].name # NoName THEN k
  ELSE NextKind(selected, k + 1)

\* a loop over file_keys that returns the selected date whether or not
\* anything was stored
ContinueAlwaysDated(r, stored) ==
  LET files == IF stored THEN Append(r.new_files, r.stored_path) ELSE r.new_files
      k == NextKind(r.selected, r.idx + 1)
      next == [r EXCEPT !.temp_file = NoPath, !.checksum = 0, !.today = "",
                        !.latest = Latest(0, 0), !.stored_path = NoPath,
                        !.todo = {}, !.pre = NoPre, !.new_files = files]
  IN IF k > Len(r.selected.kinds)
     THEN [next EXCEPT !.pc = "done", !.idx = 0, !.result = r.selected.Date]
     ELSE [next EXCEPT !.pc = "download", !.idx = k]

\* The end of one iteration of the loop over file_keys: stored tells
\* whether process_file returned a path.  After the last kind the call
\* returns selected_disp_date if new_files else None.
Continue(r, stored) ==
  LET files == IF stored THEN Append(r.new_files, r.stored_path) ELSE r.new_files
      k == NextKind(r.selected, r.idx + 1)
      next == [r EXCEPT !.temp_file = NoPath, !.checksum = 0, !.today = "",
                        !.latest = Latest(0, 0), !.stored_path = NoPath,
                        !.todo = {}, !.pre = NoPre, !.new_files = files]
  IN IF k > Len(r.selected.kinds)
     THEN [next EXCEPT !.pc = "done", !.idx = 0,
                       !.result = IF files # <<>> THEN r.selected.Date ELSE NoResult]
     ELSE [next EXCEPT !.pc = "download", !.idx = k]

\* An exception leaves download_all_files: the call ends without a result.
Raise(r, e) == [r EXCEPT !.pc = "aborted", !.err = e]

\* Closing (or losing) a thread's connection rolls back what it has not
\* committed.
Rollback(t) == IF txn.owner = t THEN NoTxn ELSE txn

\* ---------------------------------------------------------------- actions
\* an external event: one more of the MaxEvents the environment has
Event == events < MaxEvents /\ events' = events + 1

\* download_all_files, lines 221-235, on the feed's answer raw: the locals
\* of the call when the loop over file_keys begins, or the call returned
\* None because nothing was selected.
Selected(raw, target_date, db) ==
  LET items == _available_items(raw)
      target == IF target_date.fmt # "None"
                THEN _parse_input_date(target_date) ELSE NoDate
      selected == _select_item_for_date(items, target)
  IN IF items = <<>> \/ selected = NoItem
     THEN [Idle EXCEPT !.pc = "done", !.db0 = db]
     ELSE Continue([Idle EXCEPT !.selected = selected, !.db0 = db], FALSE)

\* src/app.py: scheduled_download (no argument) or trigger_download (the
\* date query parameter) calls download_all_files, which fetches the feed
\* and selects the item.
Call(t, raw, target_date) ==
  /\ run[t].pc = "idle"
  /\ Event
  /\ t = "scheduled" => target_date.fmt = "None"
  /\ crashed' = FALSE
  /\ run' = [run EXCEPT ![t] = Selected(raw, target_date, file_versions)]
  /\ UNCHANGED <<fs, objects, file_versions, txn, clock, upstream>>

\* src/app.py: download_all_files has returned (or raised) and the job or
\* the request handler ends.
Return(t) ==
  /\ run[t].pc \in {"done", "aborted"}
  /\ run' = [run EXCEPT ![t] = Idle]
  /\ UNCHANGED <<fs, objects, file_versions, txn, clock, upstream, events, crashed>>

\* requests.get of the feed raises, or raise_for_status does.
FeedError(t) ==
  /\ run[t].pc = "idle"
  /\ Event
  /\ crashed' = FALSE
  /\ run' = [run EXCEPT ![t] = Raise(Idle, "UpstreamUnavailable")]
  /\ UNCHANGED <<fs, objects, file_versions, txn, clock, upstream>>

\* the file name of the artifact kind a run is at, and its staged path
filename(r) == r.selected.kinds[r.idx].name
staged(r) == Path(DOWNLOAD_DIR, filename(r))

\* _available_items: the feed's server accepts the connection and never
\* answers; requests.get is called without a timeout and does not return.
FeedHangs(t) ==
  /\ run[t].pc = "idle"
  /\ Event
  /\ crashed' = FALSE
  /\ run' = [run EXCEPT ![t] = [Idle EXCEPT !.pc = "waiting", !.db0 = file_versions]]
  /\ UNCHANGED <<fs, objects, file_versions, txn, clock, upstream>>

\* download: the same for the requests.get of an artifact (line 172).
DownloadHangs(t) ==
  /\ run[t].pc = "download"
  /\ Event
  /\ run' = [run EXCEPT ![t].pc = "waiting"]
  /\ UNCHANGED <<fs, objects, file_versions, txn, clock, upstream, crashed>>

\* download: requests.get raises (connection refused, reset, DNS ...).
DownloadError(t) ==
  /\ run[t].pc = "download"
  /\ Event
  /\ run' = [run EXCEPT ![t] = Raise(run[t], "FetchError")]
  /\ UNCHANGED <<fs, objects, file_versions, txn, clock, upstream, crashed>>

\* download: r.status_code != 200, return None; the loop continues.
DownloadStatus(t) ==
  /\ run[t].pc = "download"
  /\ Event
  /\ run' = [run EXCEPT ![t] = Continue(run[t], FALSE)]
  /\ UNCHANGED <<fs, objects, file_versions, txn, clock, upstream, crashed>>

\* history: the body upstream serves for file name n is the one whose
\* checksum the current row of n records
IsCurrentVersion(n) ==
  \E i \in CurrentRows(file_versions, n) :
    file_versions[i].checksum = compute_checksum(upstream[n])

\* download: status 200 and every chunk of the body is written to
\* target_dir/filename.
DownloadSaved(t) ==
  /\ run[t].pc = "download"
  /\ fs' = WriteFile(fs, staged(run[t]), upstream[filename(run[t])])
  /\ run' = [run EXCEPT ![t].pc = "store", ![t].temp_file = staged(run[t]),
                         ![t].fetched = @ \cup {filename(run[t])},
                         ![t].same = @ /\ IsCurrentVersion(filename(run[t]))]
  /\ UNCHANGED <<objects, file_versions, txn, clock, upstream, events, crashed>>

\* download: status 200, the file is opened for writing and the
\* connection breaks after k chunks of the body: iter_content raises.
DownloadBroken(t, k) ==
  /\ run[t].pc = "download"
  /\ Event
  /\ k < Len(upstream[filename(run[t])])
  /\ fs' = WriteFile(fs, staged(run[t]), SubSeq(upstream[filename(run[t])], 1, k))
  /\ run' = [run EXCEPT ![t] = Raise(run[t], "FetchError")]
  /\ UNCHANGED <<objects, file_versions, txn, clock, upstream, crashed>>

\* store_if_changed, lines 104-119: hash the staged file, read the current
\* row; on a checksum match remove the staged file and return None.
StoreRead(t) ==
  /\ run[t].pc = "store"
  /\ Exists(fs, run[t].temp_file)
  /\ LET file_name == run[t].temp_file.name
         checksum == compute_checksum(ReadFile(fs, run[t].temp_file))
         latest == SelectLatest(file_versions, file_name)
     IN IF IsUnchanged(latest, checksum)
        THEN /\ fs' = RemoveFile(fs, run[t].temp_file)
             /\ run' = [run EXCEPT ![t] = Continue(run[t], FALSE)]
        ELSE /\ fs' = fs
             /\ run' = [run EXCEPT ![t].pc = "move", ![t].checksum = checksum,
                                    ![t].today = DayStr[clock], ![t].latest = latest,
                                    ![t].pre = [fs |-> fs, db |-> file_versions]]
  /\ UNCHANGED <<objects, file_versions, txn, clock, upstream, events, crashed>>

\* compute_checksum, os.remove or shutil.move on a staged file that is no
\* longer there: FileNotFoundError.
StagedMissing(t) ==
  /\ run[t].pc \in {"store", "move"}
  /\ ~Exists(fs, run[t].temp_file)
  /\ run' = [run EXCEPT ![t] = Raise(run[t], "FileNotFoundError")]
  /\ UNCHANGED <<fs, objects, file_versions, txn, clock, upstream, events, crashed>>

\* the path store_if_changed moves the staged file to
final_path(r) ==
  Path(final_dir(r.temp_file.name), versioned_name(r.temp_file.name, r.today))

\* store_if_changed, lines 121-124: shutil.move(file_path, final_path)
StoreMove(t) ==
  /\ run[t].pc = "move"
  /\ Exists(fs, run[t].temp_file)
  /\ fs' = MoveFile(fs, run[t].temp_file, final_path(run[t]))
  /\ run' = [run EXCEPT ![t].pc = "write"]
  /\ UNCHANGED <<objects, file_versions, txn, clock, upstream, events, crashed>>

\* what the UPDATE (if latest) and the INSERT of store_if_changed make of
\* the table
WrittenRows(db, r) ==
  InsertVersion(CloseLatest(db, r.latest, r.today),
                r.temp_file.name, r.checksum, r.today)

\* store_if_changed, lines 126-131: the UPDATE and the INSERT open the
\* connection's write transaction; sqlite admits one writer at a time.
StoreWrite(t) ==
  /\ run[t].pc = "write"
  /\ txn.owner = ""
  /\ txn' = [owner |-> t, db |-> WrittenRows(file_versions, run[t])]
  /\ run' = [run EXCEPT ![t].pc = "commit"]
  /\ UNCHANGED <<fs, objects, file_versions, clock, upstream, events, crashed>>

\* store_if_changed, line 132: conn.commit()
StoreCommit(t) ==
  /\ run[t].pc = "commit"
  /\ txn.owner = t
  /\ file_versions' = txn.db
  /\ txn' = NoTxn
  /\ run' = [run EXCEPT ![t].pc = "push", ![t].stored_path = final_path(run[t])]
  /\ UNCHANGED <<fs, objects, clock, upstream, events, crashed>>

\* StoreFailure: shutil.move, the UPDATE/INSERT (also "database is
\* locked") or conn.commit() raises; nothing catches it.
StoreFailure(t) ==
  /\ run[t].pc \in {"move", "write", "commit"}
  /\ Event
  /\ txn' = Rollback(t)
  /\ run' = [run EXCEPT ![t] = Raise(run[t], "StoreFailure")]
  /\ UNCHANGED <<fs, objects, file_versions, clock, upstream, crashed>>

\* process_file after push_to_minio: extract when table_for_zip is set and
\* the stored path ends in .zip, else return stored_path.
AfterPush(r) ==
  IF table_for_zip(r.temp_file.name) # "" /\ Lower(r.stored_path.name.ext) = ".zip"
  THEN [r EXCEPT !.pc = "extract"]
  ELSE Continue(r, TRUE)

\* push_to_minio: upload_file succeeds.
PushOk(t) ==
  /\ run[t].pc = "push"
  /\ Exists(fs, run[t].stored_path)
  /\ objects' = PutObject(objects,
                           raw_key(upload_prefix(run[t].temp_file.name), run[t].stored_path),
                           ReadFile(fs, run[t].stored_path))
  /\ run' = [run EXCEPT ![t] = AfterPush(run[t])]
  /\ UNCHANGED <<fs, file_versions, txn, clock, upstream, events, crashed>>

\* a push_to_minio without its try/except: the upload's exception leaves
\* download_all_files
PushFailsUncaught(t) ==
  /\ run[t].pc = "push"
  /\ Event
  /\ run' = [run EXCEPT ![t] =
               Raise([run[t] EXCEPT !.unpublished = @ \cup {run[t].stored_path}],
                     "PublishFailure")]
  /\ UNCHANGED <<fs, objects, file_versions, txn, clock, upstream, crashed>>

\* push_to_minio: upload_file raises; the exception is logged.
PushFails(t) ==
  /\ run[t].pc = "push"
  /\ Event
  /\ run' = [run EXCEPT ![t] =
               AfterPush([run[t] EXCEPT !.unpublished = @ \cup {run[t].stored_path}])]
  /\ UNCHANGED <<fs, objects, file_versions, txn, clock, upstream, crashed>>

\* process_file, lines 205-215: extractall into /tmp/<stem>, then the
\* listing of move_to_warehouse_and_upload; BadZipFile is logged.
Extract(t) ==
  /\ run[t].pc = "extract"
  /\ Exists(fs, run[t].stored_path)
  /\ LET body == ReadFile(fs, run[t].stored_path)
         dir == extract_dir_of(run[t].stored_path)
         out == ExtractMembers(fs, dir, body, GoodPrefix(body))
     IN IF ~OpensAsZip(body)
        THEN /\ fs' = fs
             /\ run' = [run EXCEPT ![t] = Continue(run[t], TRUE)]
        ELSE IF GoodPrefix(body) < MemberCount(body)
        THEN /\ fs' = out
             /\ run' = [run EXCEPT ![t] = Continue(run[t], TRUE)]
        ELSE /\ fs' = out
             /\ run' = [run EXCEPT ![t].pc = "distribute",
                                    ![t].todo = ListDir(out, dir)]
  /\ UNCHANGED <<objects, file_versions, txn, clock, upstream, events, crashed>>

\* the day of the partition: _parse_item_date(selected["Date"])
selected_day(r) == _parse_item_date(r.selected.Date)

\* move_to_warehouse_and_upload, one turn of the loop over the listing:
\* shutil.move into the partition, then upload_warehouse_file succeeds.
MoveMember(t, fn) ==
  /\ run[t].pc = "distribute"
  /\ fn \in run[t].todo
  /\ LET table == table_for_zip(run[t].temp_file.name)
         src == Path(extract_dir_of(run[t].stored_path), fn)
         dst == Path(_partition_dir(table, selected_day(run[t])), fn)
     IN /\ Exists(fs, src)
        /\ fs' = MoveFile(fs, src, dst)
        /\ objects' = PutObject(objects,
                                 warehouse_key(dst, table, selected_day(run[t])),
                                 ReadFile(fs, src))
  /\ run' = [run EXCEPT ![t].todo = @ \ {fn}]
  /\ UNCHANGED <<file_versions, txn, clock, upstream, events, crashed>>

\* the same turn when upload_warehouse_file's upload raises; the
\* exception is logged.
MoveMemberUploadFails(t, fn) ==
  /\ run[t].pc = "distribute"
  /\ fn \in run[t].todo
  /\ Event
  /\ LET table == table_for_zip(run[t].temp_file.name)
         src == Path(extract_dir_of(run[t].stored_path), fn)
         dst == Path(_partition_dir(table, selected_day(run[t])), fn)
     IN /\ Exists(fs, src)
        /\ fs' = MoveFile(fs, src, dst)
        /\ run' = [run EXCEPT ![t].todo = @ \ {fn},
                               ![t].unpublished = @ \cup {dst}]
  /\ UNCHANGED <<objects, file_versions, txn, clock, upstream, crashed>>

\* move_to_warehouse_and_upload: shutil.move of a listed member that is
\* no longer in the extract directory raises.
MemberMissing(t, fn) ==
  /\ run[t].pc = "distribute"
  /\ fn \in run[t].todo
  /\ ~Exists(fs, Path(extract_dir_of(run[t].stored_path), fn))
  /\ run' = [run EXCEPT ![t] = Raise(run[t], "FileNotFoundError")]
  /\ UNCHANGED <<fs, objects, file_versions, txn, clock, upstream, events, crashed>>

\* move_to_warehouse_and_upload, line 194: rmtree, then process_file
\* returns stored_path.
Cleanup(t) ==
  /\ run[t].pc = "distribute"
  /\ run[t].todo = {}
  /\ fs' = RmTree(fs, extract_dir_of(run[t].stored_path))
  /\ run' = [run EXCEPT ![t] = Continue(run[t], TRUE)]
  /\ UNCHANGED <<objects, file_versions, txn, clock, upstream, events, crashed>>

\* The process is killed: every call in progress is gone and sqlite rolls
\* back the transaction that was open; files and committed rows stay.
Crash ==
  /\ \E t \in Threads : Active(t)
  /\ Event
  /\ run' = [t \in Threads |-> Idle]
  /\ txn' = NoTxn
  /\ crashed' = TRUE
  /\ UNCHANGED <<fs, objects, file_versions, clock, upstream>>

\* Midnight: date.today() moves to the next day.
Midnight ==
  /\ Event
  /\ clock' = clock + 1
  /\ UNCHANGED <<fs, objects, file_versions, txn, run, upstream, crashed>>

\* links.sgx.com starts serving another body for a file name.
Revise(n, body) ==
  /\ Event
  /\ upstream[n] # body
  /\ upstream' = [upstream EXCEPT ![n] = body]
  /\ UNCHANGED <<fs, objects, file_versions, txn, clock, run, crashed>>

\* the steps of a thread other than the start of a call
Work(t) ==
  \/ Return(t)
  \/ FeedError(t)
  \/ FeedHangs(t)
  \/ DownloadError(t)
  \/ DownloadHangs(t)
  \/ DownloadStatus(t)
  \/ DownloadSaved(t)
  \/ \E k \in 0..1 : DownloadBroken(t, k)
  \/ StoreRead(t)
  \/ StoreMove(t)
  \/ StoreWrite(t)
  \/ StoreCommit(t)
  \/ StoreFailure(t)
  \/ PushOk(t)
  \/ PushFails(t)
  \/ Extract(t)
  \/ \E fn \in run[t].todo : MoveMember(t, fn)
  \/ \E fn \in run[t].todo : MoveMemberUploadFails(t, fn)
  \/ Cleanup(t)

\* the steps that find a file gone, which takes another call working on
\* the same names at the same time
Missing(t) ==
  \/ StagedMissing(t)
  \/ \E fn \in run[t].todo : MemberMissing(t, fn)

Environment ==
  \/ Crash
  \/ Midnight
  \/ \E n \in FeedNames, body \in Bodies : Revise(n, body)

\* The selection of download_all_files alone, with the feed and the
\* argument of each call kept as history.
SelectCall(t, raw, target_date) ==
  /\ run[t].pc = "idle"
  /\ Event
  /\ t = "scheduled" => target_date.fmt = "None"
  /\ run' = [run EXCEPT ![t] =
       [Selected(raw, target_date, file_versions) EXCEPT
          !.input = [given |-> TRUE, raw |-> raw, target_date |-> target_date]]]
  /\ UNCHANGED <<fs, objects, file_versions, txn, clock, upstream, crashed>>

SelectNext ==
  \E t \in Threads :
    \/ \E raw \in Feeds, target_date \in TargetInputs : SelectCall(t, raw, target_date)
    \/ FeedError(t)
    \/ Return(t)

SelectSpec == Init /\ [][SelectNext]_vars

\* ------------------------------------------- src/sgx_downloader.py
\* The module at the top of src/, which `from sgx_downloader import ...`
\* can also resolve to: no version store, no object store; it downloads
\* into "downloads" and extracts every zip in place.
LegacyDownloadDir == Dir("downloads", <<>>, <<>>)

\* fetch_items: the feed's entries that have a Date and a key, in the
\* feed's order
fetch_items(raw) == SelectSeq(raw, HasDateAndKey)

\* next((i for i in items if i.get("Date") == target_date), None): the
\* first item whose display date is the very text passed in
LegacySelect(items, target_date) ==
  LET text == Disp(target_date.d, target_date.mon, target_date.y)
      hits == {i \in 1..Len(items) :
                 target_date.fmt = "%d %b %Y" /\ items[i].Date = text}
  IN IF hits = {} THEN NoItem
     ELSE items[CHOOSE i \in hits : \A j \in hits : i <= j]

\* the end of one iteration of the loop over file_keys (lines 112-119);
\* after the last kind the call returns selected["Date"]
LegacyContinue(r) ==
  LET k == NextKind(r.selected, r.idx + 1)
  IN IF k > Len(r.selected.kinds)
     THEN [r EXCEPT !.pc = "done", !.idx = 0, !.temp_file = NoPath,
                    !.result = r.selected.Date]
     ELSE [r EXCEPT !.pc = "fetch", !.idx = k, !.temp_file = NoPath]

\* path = os.path.join(DOWNLOAD_DIR, filename)
LegacyPath(r) == Path(LegacyDownloadDir, filename(r))

\* download_all_files, lines 89-103, run from the command line or by a
\* caller of the module, one call at a time
LegacyCall(t, raw, target_date) ==
  /\ run[t].pc = "idle"
  /\ \A u \in Threads \ {t} : ~Active(u)
  /\ Event
  /\ LET items == fetch_items(raw)
         selected == IF target_date.fmt = "None" THEN
                       (IF items = <<>> THEN NoItem ELSE items[1])
                     ELSE LegacySelect(items, target_date)
     IN run' = [run EXCEPT ![t] =
          IF selected = NoItem
          THEN [Idle EXCEPT !.pc = "done"]
          ELSE LegacyContinue([Idle EXCEPT !.selected = selected])]
  /\ UNCHANGED <<fs, objects, file_versions, txn, clock, upstream, crashed>>

\* download, lines 65-67: the file is already there
LegacySkip(t) ==
  /\ run[t].pc = "fetch"
  /\ Exists(fs, LegacyPath(run[t]))
  /\ run' = [run EXCEPT ![t] = LegacyContinue(run[t])]
  /\ UNCHANGED <<fs, objects, file_versions, txn, clock, upstream, events, crashed>>

\* download raises (requests.get, the write); download_all_files logs it
\* (lines 116-119)
LegacyError(t) ==
  /\ run[t].pc = "fetch"
  /\ ~Exists(fs, LegacyPath(run[t]))
  /\ Event
  /\ run' = [run EXCEPT ![t] = LegacyContinue(run[t])]
  /\ UNCHANGED <<fs, objects, file_versions, txn, clock, upstream, crashed>>

\* download, lines 72-77: a status other than 200, or a body of fewer
\* than 10 bytes (here: no chunk at all)
LegacyRejected(t) ==
  /\ run[t].pc = "fetch"
  /\ ~Exists(fs, LegacyPath(run[t]))
  /\ \/ Event
     \/ upstream[filename(run[t])] = <<>> /\ UNCHANGED events
  /\ run' = [run EXCEPT ![t] = LegacyContinue(run[t])]
  /\ UNCHANGED <<fs, objects, file_versions, txn, clock, upstream, crashed>>

\* download, lines 79-83: the body is written to downloads/filename
LegacySaved(t) ==
  /\ run[t].pc = "fetch"
  /\ ~Exists(fs, LegacyPath(run[t]))
  /\ upstream[filename(run[t])] # <<>>
  /\ fs' = WriteFile(fs, LegacyPath(run[t]), upstream[filename(run[t])])
  /\ run' = [run EXCEPT ![t].pc = "unzip", ![t].temp_file = LegacyPath(run[t])]
  /\ UNCHANGED <<objects, file_versions, txn, clock, upstream, events, crashed>>

\* extract_if_zip: a file whose name ends in .zip is extracted into its
\* own directory and then removed; on BadZipFile it is kept.
extract_if_zip(t) ==
  /\ run[t].pc = "unzip"
  /\ LET filepath == run[t].temp_file
         body == ReadFile(fs, filepath)
         out == ExtractMembers(fs, filepath.dir, body, GoodPrefix(body))
     IN fs' = IF Lower(filepath.name.ext) # ".zip" \/ ~OpensAsZip(body) THEN fs
              ELSE IF GoodPrefix(body) < MemberCount(body) THEN out
              ELSE RemoveFile(out, filepath)
  /\ run' = [run EXCEPT ![t] = LegacyContinue(run[t])]
  /\ UNCHANGED <<objects, file_versions, txn, clock, upstream, events, crashed>>

LegacyNext ==
  \/ \E t \in Threads :
        \/ \E raw \in Feeds, target_date \in TargetInputs : LegacyCall(t, raw, target_date)
        \/ LegacySkip(t)
        \/ LegacyError(t)
        \/ LegacyRejected(t)
        \/ LegacySaved(t)
        \/ extract_if_zip(t)
        \/ Return(t)
  \/ \E n \in FeedNames, body \in Bodies : Revise(n, body)

LegacySpec == Init /\ [][LegacyNext]_vars

\* The scheduler's job thread and the server's request threads run
\* download_all_files with no lock between them.
Next ==
  \/ \E t \in Threads :
        \/ \E raw \in Feeds, target_date \in TargetInputs : Call(t, raw, target_date)
        \/ Work(t)
        \/ Missing(t)
  \/ Environment

Spec == Init /\ [][Next]_vars

\* One call of download_all_files at a time: a call starts only when no
\* other thread is inside one.
SeqCall(t, raw, target_date) ==
  /\ \A u \in Threads \ {t} : ~Active(u)
  /\ Call(t, raw, target_date)

SeqNext ==
  \/ \E t \in Threads :
        \/ \E raw \in Feeds, target_date \in TargetInputs : SeqCall(t, raw, target_date)
        \/ Work(t)
  \/ Environment

SeqSpec == Init /\ [][SeqNext]_vars

\* ------------------------------------------------------------ properties
\* the rows of the table that belong to file name n
RowsOf(db, n) == {i \in 1..Len(db) : db[i].file_name = n}

\* the durable path a row's version was stored under
StoredPathOf(row) ==
  Path(final_dir(row.file_name), versioned_name(row.file_name, row.version_date))

\* the files of the raw and reference stores that carry a version-suffixed
\* name (the staged copies in the raw directory carry the feed's names)
Relocated ==
  {f \in fs : f.dir \in {DOWNLOAD_DIR, REFERENCE_DIR} /\ f.name \notin FeedNames}

\* a relocated file has its record: a row of the table with its name and
\* the checksum of its content
HasRecord(f) ==
  \E i \in 1..Len(file_versions) :
    /\ StoredPathOf(file_versions[i]) = Path(f.dir, f.name)
    /\ file_versions[i].checksum = compute_checksum(f.body)

\* C1: after any sequence of sequential store_if_changed commits, the
\* table holds at most one row with valid_to = NULL for every file_name.
C1_AtMostOneCurrent ==
  \A n \in FeedNames : Cardinality(CurrentRows(file_versions, n)) <= 1

\* C1's case: a file name has had two commits, its first version is
\* closed and its second is the only current one.
C1_Witness ==
  \E n \in FeedNames :
    /\ Cardinality(RowsOf(file_versions, n)) >= 2
    /\ Cardinality(CurrentRows(file_versions, n)) = 1

\* thread t is between store_if_changed's read of the current row and its
\* commit
InCommit(t) == run[t].pc \in {"move", "write", "commit"}

\* C2: commits for one file_name take effect one after the other: however
\* two calls interleave, no two rows of one file_name are both current.
C2_SerializedCommits ==
  \A i, j \in 1..Len(file_versions) :
    ( /\ file_versions[i].file_name = file_versions[j].file_name
      /\ file_versions[i].valid_to = NULL
      /\ file_versions[j].valid_to = NULL ) => i = j

\* C3: when the process stops inside store_if_changed, the durable state
\* has neither two current rows for a file_name nor a relocated file
\* without its record.
C3_CrashAtomic ==
  crashed =>
    /\ \A n \in FeedNames : Cardinality(CurrentRows(file_versions, n)) <= 1
    /\ \A f \in Relocated : HasRecord(f)

\* C4: a call that fetches, for every artifact, the body whose checksum
\* the current row already records ends with the table exactly as it was
\* when the call started, every staged copy discarded, nothing stored
\* and None returned.
C4_Step ==
  \A t \in Threads :
    ( /\ run[t].pc # "done"
      /\ run'[t].pc = "done"
      /\ run'[t].selected # NoItem
      /\ run'[t].same )
    => /\ file_versions' = run'[t].db0
       /\ run'[t].new_files = <<>>
       /\ run'[t].result = NoResult
       /\ \A n \in run'[t].fetched : ~Exists(fs', Path(DOWNLOAD_DIR, n))
C4_Idempotent == [][C4_Step]_vars

\* C4's case: a call has ended after fetching both artifacts of its item
\* again, each identical to its current version.
C4_Witness ==
  \E t \in Threads :
    /\ run[t].pc = "done"
    /\ run[t].same
    /\ Cardinality(run[t].fetched) = 2
    /\ \A n \in run[t].fetched : CurrentRows(file_versions, n) # {}

\* the staged content of thread t differs from every current row of its
\* file name (also when there is none)
Differs(t) ==
  \A i \in CurrentRows(file_versions, run[t].temp_file.name) :
    file_versions[i].checksum # compute_checksum(ReadFile(fs, run[t].temp_file))

\* C5: a commit of content whose hash differs from the current row's
\* checksum goes on to store it, and every change of the table adds
\* exactly one row (valid_to NULL, valid_from = version_date = the
\* commit's day, the checksum of the file stored under its versioned
\* name), closes the previously current row of that file_name with
\* valid_to = the new row's valid_from, and touches no other row.
C5_Step ==
  /\ \A t \in Threads :
        ( /\ run[t].pc = "store"
          /\ run'[t].pc \notin {"store", "aborted", "idle"} )
        => (run'[t].pc = "move" <=> Differs(t))
  /\ file_versions' # file_versions =>
        LET old == file_versions
            new == file_versions'
            k == Len(old) + 1
        IN /\ Len(new) = k
           /\ new[k].valid_to = NULL
           /\ new[k].valid_from = new[k].version_date
           /\ \E t \in Threads :
                 /\ run[t].pc = "commit"
                 /\ new[k].file_name = run[t].temp_file.name
                 /\ new[k].checksum = run[t].checksum
                 /\ new[k].valid_from = run[t].today
           /\ Exists(fs', StoredPathOf(new[k]))
           /\ new[k].checksum = compute_checksum(ReadFile(fs', StoredPathOf(new[k])))
           /\ \A i \in 1..Len(old) :
                 IF i \in CurrentRows(old, new[k].file_name)
                 THEN /\ new[i] = [old[i] EXCEPT !.valid_to = new[k].valid_from]
                      /\ old[i].checksum # new[k].checksum
                 ELSE new[i] = old[i]
C5_ChangeDetection == [][C5_Step]_vars

\* C5's case: a file name has a closed first version and a current second
\* version with another checksum, the first closed on the day the second
\* became valid.
C5_Witness ==
  \E i, j \in 1..Len(file_versions) :
    /\ i < j
    /\ file_versions[i].file_name = file_versions[j].file_name
    /\ file_versions[i].checksum # file_versions[j].checksum
    /\ file_versions[j].valid_to = NULL
    /\ file_versions[i].valid_to = file_versions[j].valid_from

\* C6: while no commit is under way, every row's checksum is the content
\* hash of the file held under that row's version_date-suffixed name.
C6_ChecksumMatchesFile ==
  (\A t \in Threads : ~InCommit(t)) =>
  \A i \in 1..Len(file_versions) :
    /\ Exists(fs, StoredPathOf(file_versions[i]))
    /\ file_versions[i].checksum
         = compute_checksum(ReadFile(fs, StoredPathOf(file_versions[i])))

\* C7: a fetch failure on one artifact kind does not end the call while a
\* kind of the selected item remains to be fetched.
C7_FetchFailureIsolated ==
  \A t \in Threads :
    (run[t].pc = "aborted" /\ run[t].err = "FetchError")
      => NextKind(run[t].selected, run[t].idx + 1) > Len(run[t].selected.kinds)

\* the bodies that are no complete answer: the empty body and the strict
\* prefixes of the bodies upstream serves
Incomplete ==
  {<<>>} \cup UNION { {SubSeq(b, 1, k) : k \in 0..(Len(b) - 1)} : b \in Bodies }

\* C8: a failed fetch leaves no truncated or empty file at the staged
\* name, and no row records the checksum of truncated or empty content.
C8_NoTruncatedContent ==
  /\ \A t \in Threads :
        (run[t].pc = "aborted" /\ run[t].err = "FetchError")
          => ~( /\ Exists(fs, staged(run[t]))
                /\ ReadFile(fs, staged(run[t])) \in Incomplete )
  /\ \A i \in 1..Len(file_versions) :
        file_versions[i].checksum \notin {compute_checksum(b) : b \in Incomplete}

\* C9: after a commit failed with a StoreFailure the files and the table
\* are exactly what they were before the attempt.
C9_StoreFailureLeavesState ==
  \A t \in Threads :
    (run[t].pc = "aborted" /\ run[t].err = "StoreFailure")
      => (fs = run[t].pre.fs /\ file_versions = run[t].pre.db)

\* the elements of a sequence
Range(q) == {q[i] : i \in 1..Len(q)}

\* C10: a failed upload of a raw, reference or warehouse object changes no
\* row, removes no stored file, does not end the call, and the artifact
\* still counts as stored; the files whose upload failed stay in place and
\* a raw or reference file among them is in new_files when the call ends.
C10_Step ==
  /\ \A t \in Threads :
        ( /\ run[t].unpublished \subseteq run'[t].unpublished
          /\ run[t].unpublished # run'[t].unpublished )
        => /\ file_versions' = file_versions
           /\ Relocated \subseteq fs'
           /\ run'[t].pc \in {"download", "extract", "distribute", "done"}
           /\ \/ run'[t].stored_path = run[t].stored_path
              \/ run[t].stored_path \in Range(run'[t].new_files)
  /\ \A t \in Threads :
        \A p \in run'[t].unpublished :
          /\ Exists(fs', p)
          /\ (run'[t].pc = "done" /\ p.dir \in {DOWNLOAD_DIR, REFERENCE_DIR})
               => p \in Range(run'[t].new_files)
C10_PublishFailureKeepsCommit == [][C10_Step]_vars

\* C10's case: a call has ended with both artifacts of its item stored
\* although the upload of one of them failed.
C10_Witness ==
  \E t \in Threads :
    /\ run[t].pc = "done"
    /\ Len(run[t].new_files) = 2
    /\ \E p \in run[t].unpublished :
          /\ p \in Range(run[t].new_files)
          /\ \E i \in 1..Len(file_versions) : StoredPathOf(file_versions[i]) = p


\* the paths of the versions a table holds beyond the rows of db0
StoredSince(db, db0) ==
  {StoredPathOf(db[i]) : i \in (Len(db0) + 1)..Len(db)}

\* C11: when a call returns, new_files lists exactly the artifacts its
\* commits stored, each once (none for a commit that found the content
\* unchanged or a fetch that failed), and the result is None exactly when
\* nothing was stored, the selected item's date otherwise.
C11_Step ==
  \A t \in Threads :
    (run[t].pc # "done" /\ run'[t].pc = "done") =>
      /\ Range(run'[t].new_files) = StoredSince(file_versions', run'[t].db0)
      /\ Len(run'[t].new_files) = Len(file_versions') - Len(run'[t].db0)
      /\ run'[t].result = NoResult <=> Len(file_versions') = Len(run'[t].db0)
      /\ run'[t].result # NoResult => run'[t].result = run'[t].selected.Date
C11_OutcomeListsStored == [][C11_Step]_vars

\* C11's case: a call on an existing item has returned after storing one of
\* its two artifacts and not the other.
C11_Witness ==
  \E t \in Threads :
    /\ run[t].pc = "done"
    /\ run[t].selected # NoItem
    /\ Len(run[t].new_files) = 1
    /\ run[t].result = run[t].selected.Date


\* the container a thread is extracting: the stored version in
\* process_file, the downloaded file in extract_if_zip
Container(r) == IF r.pc = "unzip" THEN r.temp_file ELSE r.stored_path

\* C12: no step taken while a container is being extracted and its members
\* distributed removes the container file or changes its content.
C12_Step ==
  \A t \in Threads :
    ( /\ run[t].pc \in {"extract", "distribute", "unzip"}
      /\ Exists(fs, Container(run[t])) )
    => /\ Exists(fs', Container(run[t]))
       /\ ReadFile(fs', Container(run[t])) = ReadFile(fs, Container(run[t]))
C12_ContainerRetained == [][C12_Step]_vars


\* C13: only the primary data file (the first of file_keys) is ever
\* extracted and moved into a warehouse partition; the structure files and
\* the TC data file are stored flat.
C13_OnlyPrimaryExtracted ==
  \A t \in Threads :
    run[t].pc \in {"extract", "distribute"} => file_keys[run[t].idx] = "Data File"


\* the partition a thread distributes into, and the members of the
\* container it extracted
PartitionOf(r) == _partition_dir(table_for_zip(r.temp_file.name), selected_day(r))
MembersOf(files, r) ==
  {MemberName(i) : i \in 1..MemberCount(ReadFile(files, r.stored_path))}

\* C14: for a container of n members, every member is in the listing that
\* distribute works through; each turn takes one name off the listing,
\* leaves that file in the partition <table>/year/month/day of the item's
\* date and invokes the publisher once, with the key made of that
\* partition and the file's name; and when distribute has completed all n
\* members are in the partition with their content and the extract
\* directory holds nothing.
C14_Step ==
  \A t \in Threads :
    LET r == run[t]
        dir == extract_dir_of(r.stored_path)
    IN /\ (r.pc = "extract" /\ run'[t].pc = "distribute")
            => MembersOf(fs, r) \subseteq run'[t].todo
       /\ (r.pc = "distribute" /\ run'[t].pc = "distribute" /\ run'[t].todo # r.todo)
            => \E fn \in r.todo :
                 LET dst == Path(PartitionOf(r), fn)
                     sent == Object(Key("derivative_data", dst.dir.sub, dst.dir.part, fn),
                                    ReadFile(fs, Path(dir, fn)))
                 IN /\ run'[t].todo = r.todo \ {fn}
                    /\ Exists(fs', dst)
                    /\ ReadFile(fs', dst) = ReadFile(fs, Path(dir, fn))
                    /\ ~Exists(fs', Path(dir, fn))
                    /\ \/ /\ sent \in objects'
                          /\ objects' \ {sent} \subseteq objects
                          /\ run'[t].unpublished = r.unpublished
                       \/ /\ objects' = objects
                          /\ run'[t].unpublished = r.unpublished \cup {dst}
       /\ (r.pc = "distribute" /\ run'[t].pc \in {"download", "done"})
            => /\ r.todo = {}
               /\ ListDir(fs', dir) = {}
               /\ \A i \in 1..MemberCount(ReadFile(fs, r.stored_path)) :
                    /\ Exists(fs', Path(PartitionOf(r), MemberName(i)))
                    /\ ReadFile(fs', Path(PartitionOf(r), MemberName(i)))
                         = <<ReadFile(fs, r.stored_path)[i]>>
C14_MembersPartitioned == [][C14_Step]_vars

\* C14's case: the two members of the primary container of 07 Mar 2024
\* are in the partition of that day, both are published under it, and no
\* extract directory holds a file.
C14_Witness ==
  LET d == _parse_item_date(Item07.Date)
      p == _partition_dir("WEBPXTICK_DT", d)
  IN /\ \A i \in 1..2 :
          /\ Exists(fs, Path(p, MemberName(i)))
          /\ \E o \in objects :
                o.key = Key("derivative_data", p.sub, p.part, MemberName(i))
     /\ \A f \in fs : f.dir.root # "/tmp"
     /\ \A t \in Threads : run[t].pc \notin {"extract", "distribute"}


\* the calendar date a target written in one of the accepted notations
\* names; NoDate for a text in none of them
TargetDay(target_date) ==
  IF target_date.fmt \in {"%d/%m/%Y", "%Y-%m-%d"}
  THEN Date(target_date.y, target_date.m, target_date.d)
  ELSE IF target_date.fmt = "%d %b %Y"
  THEN Date(target_date.y, MonthIndex(target_date.mon), target_date.d)
  ELSE NoDate

\* the entries of a feed that have a Date and a key
Offered(raw) == {raw[i] : i \in {j \in 1..Len(raw) : HasDateAndKey(raw[j])}}

\* C15: a call without a target selects an offered item that no offered
\* item is more recent than; a call with a target selects only an offered
\* item whose date is the target's calendar date, and when there is none it
\* selects nothing and returns without a fetch.
C15_Selection ==
  \A t \in Threads :
    run[t].input.given =>
      LET raw == run[t].input.raw
          target_date == run[t].input.target_date
          selected == run[t].selected
      IN IF target_date.fmt = "None"
         THEN IF Offered(raw) = {} THEN selected = NoItem
              ELSE /\ selected \in Offered(raw)
                   /\ \A i \in Offered(raw) :
                        ~DateLess(_parse_item_date(selected.Date), _parse_item_date(i.Date))
         ELSE /\ selected # NoItem =>
                   /\ selected \in Offered(raw)
                   /\ _parse_item_date(selected.Date) = TargetDay(target_date)
              /\ (\A i \in Offered(raw) : _parse_item_date(i.Date) # TargetDay(target_date))
                   => (selected = NoItem /\ run[t].pc = "done")
              /\ (\E i \in Offered(raw) : _parse_item_date(i.Date) = TargetDay(target_date))
                   => selected # NoItem


\* C16: a call in progress can always take a next step by itself: no
\* network operation leaves it waiting without end.
C16_NeverBlocked ==
  \A t \in Threads : Active(t) => ENABLED Work(t)


\* C17: no step removes a row of file_versions or changes the file_name,
\* version_date, checksum or valid_from of a row, and the only change of a
\* valid_to is from NULL to a date: a closed row is never written again.
C17_Step ==
  /\ Len(file_versions') >= Len(file_versions)
  /\ \A i \in 1..Len(file_versions) :
       LET old == file_versions[i]
           new == file_versions'[i]
       IN /\ new.file_name = old.file_name
          /\ new.version_date = old.version_date
          /\ new.checksum = old.checksum
          /\ new.valid_from = old.valid_from
          /\ \/ new.valid_to = old.valid_to
             \/ old.valid_to = NULL /\ \E d \in 1..Len(DayStr) : new.valid_to = DayStr[d]
C17_AppendOnly == [][C17_Step]_vars

\* C17's case: the table holds a closed row and at least two rows written
\* after it.
C17_Witness ==
  \E i \in 1..Len(file_versions) :
    /\ file_versions[i].valid_to # NULL
    /\ Len(file_versions) >= i + 2


\* C18: the files distribute has listed and still has to move are members
\* of the container the call has just extracted.
C18_OnlyOwnMembers ==
  \A t \in Threads :
    run[t].pc = "distribute" => run[t].todo \subseteq MembersOf(fs, run[t])


\* C19: while a call holds a staged file it has fetched and not yet
\* committed or discarded, no step of another call overwrites, moves or
\* deletes that file.
C19_Step ==
  \A t \in Threads :
    ( /\ run[t].pc \in {"store", "move"}
      /\ run'[t] = run[t]
      /\ Exists(fs, run[t].temp_file) )
    => /\ Exists(fs', run[t].temp_file)
       /\ ReadFile(fs', run[t].temp_file) = ReadFile(fs, run[t].temp_file)
C19_StagedOwned == [][C19_Step]_vars


\* a body that opens as a zip and whose members all extract
WellFormed(body) == OpensAsZip(body) /\ GoodPrefix(body) = MemberCount(body)

\* C20: when a call on an item has returned and no call is in progress,
\* every container of that item that maps to a table and has a current row
\* for the well-formed file stored under its versioned name has all its
\* members in the partition of the item's date.
C20_RetryCompletes ==
  \A t \in Threads :
    ( /\ run[t].pc = "done"
      /\ run[t].selected # NoItem
      /\ \A u \in Threads : ~Active(u) ) =>
      \A k \in 1..Len(run[t].selected.kinds) :
        LET kind == run[t].selected.kinds[k]
            table == table_for_zip(kind.name)
            d == _parse_item_date(run[t].selected.Date)
        IN (kind.link # "" /\ kind.name # NoName /\ table # "") =>
             \A i \in CurrentRows(file_versions, kind.name) :
               LET p == StoredPathOf(file_versions[i])
               IN ( /\ Exists(fs, p)
                    /\ file_versions[i].checksum = compute_checksum(ReadFile(fs, p))
                    /\ WellFormed(ReadFile(fs, p)) )
                  => \A m \in 1..MemberCount(ReadFile(fs, p)) :
                       Exists(fs, Path(_partition_dir(table, d), MemberName(m)))

=============================================================================
